---- MODULE Spec2Model ----
(***************************************************************************)
(* Chicago founder sourcing engine: the prospect store (GoogleSheetsDB,    *)
(* CSVDatabase), the orchestrator (SourcingEngine) that collects,          *)
(* enriches, scores and stores prospects, the scorer (ClaudeScorer) and    *)
(* the enricher (AutoEnricher).                                            *)
(*                                                                         *)
(* Text that the code inspects character by character (name, email, bio,   *)
(* signals) is a sequence of one-character strings; text that the code     *)
(* only copies (source, priority, ...) is an opaque string.  A prospect is *)
(* a function from the keys that are present in the Python dict to their   *)
(* values, so an absent key is a key outside DOMAIN.                       *)
(***************************************************************************)
EXTENDS Integers, Sequences, FiniteSets, TLC

VARIABLES
    backend,        \* which store class is in use: "sheets" or "csv"
    rows,           \* the data rows of the store, header excluded, in order
    last,           \* the most recent direct call of a component and its result
    env,            \* what the process environment provides at start-up
    pc,             \* where main() is: boot, scrape, pipeline, done, aborted
    srcIdx,         \* scrape_all_sources: position in self.scrapers
    scraped,        \* scrape_all_sources: what each collector did, in run order
    all_prospects,  \* scrape_all_sources: the list being built and returned
    i,              \* store_prospects: 1-based position in prospects
    step,           \* store_prospects: the step the current prospect is at
    cur,            \* store_prospects: enriched_prospect of the current one
    stats,          \* store_prospects: the statistics dict
    hist,           \* how often each step was called, raised or failed
    ev              \* the step taken last and how it ended

storeVars == <<backend, rows, last>>

runVars == <<env, pc, srcIdx, scraped, all_prospects, i, step, cur, stats, hist, ev>>

vars == <<backend, rows, last, env, pc, srcIdx, scraped, all_prospects, i, step,
          cur, stats, hist, ev>>

----------------------------------------------------------------------------
(* Bounds of the model *)

\* the store is explored up to this many data rows
MaxRows == 2

\* one run collects at most this many prospects over all its sources
MaxProspects == 3

----------------------------------------------------------------------------
(* Python string operations, over the characters the model uses *)

Whitespace == {" "}

\* the ASCII upper-case letters and their lower-case letters
UpperToLower ==
    ("A" :> "a") @@ ("B" :> "b") @@ ("C" :> "c") @@ ("D" :> "d") @@ ("E" :> "e")
    @@ ("F" :> "f") @@ ("G" :> "g") @@ ("H" :> "h") @@ ("I" :> "i") @@ ("J" :> "j")
    @@ ("K" :> "k") @@ ("L" :> "l") @@ ("M" :> "m") @@ ("N" :> "n") @@ ("O" :> "o")
    @@ ("P" :> "p") @@ ("Q" :> "q") @@ ("R" :> "r") @@ ("S" :> "s") @@ ("T" :> "t")
    @@ ("U" :> "u") @@ ("V" :> "v") @@ ("W" :> "w") @@ ("X" :> "x") @@ ("Y" :> "y")
    @@ ("Z" :> "z")

\* str.lower() on one character
LowerChar(ch) == IF ch \in DOMAIN UpperToLower THEN UpperToLower[ch] ELSE ch

\* str.lower()
Lower(s) == [n \in 1..Len(s) |-> LowerChar(s[n])]

RECURSIVE LStrip(_)
LStrip(s) ==
    IF s # <<>> /\ Head(s) \in Whitespace THEN LStrip(Tail(s)) ELSE s

RECURSIVE RStrip(_)
RStrip(s) ==
    IF s # <<>> /\ s[Len(s)] \in Whitespace
    THEN RStrip(SubSeq(s, 1, Len(s) - 1))
    ELSE s

\* str.strip()
Strip(s) == LStrip(RStrip(s))

\* x.lower().strip(), the key both duplicate checks compare on
Normalize(s) == Strip(Lower(s))

\* s[:n]
Take(s, n) == SubSeq(s, 1, IF Len(s) < n THEN Len(s) ELSE n)

\* sep.join(parts)
RECURSIVE Join(_, _)
Join(sep, parts) ==
    IF parts = <<>> THEN <<>>
    ELSE IF Len(parts) = 1 THEN parts[1]
    ELSE parts[1] \o sep \o Join(sep, Tail(parts))

\* [s for s in parts if s]
RECURSIVE Truthy(_)
Truthy(parts) ==
    IF parts = <<>> THEN <<>>
    ELSE IF Head(parts) = <<>> THEN Truthy(Tail(parts))
    ELSE <<Head(parts)>> \o Truthy(Tail(parts))

\* the literal ' | '
SignalSep == <<" ", "|", " ">>

----------------------------------------------------------------------------
(* Values of a cell that is not always text *)

StrCell(s) == [kind |-> "str", val |-> s]
IntCell(n) == [kind |-> "int", val |-> n]
ListCell(l) == [kind |-> "list", val |-> l]

\* dict.get(key, default)
Get(d, key, default) == IF key \in DOMAIN d THEN d[key] ELSE default

----------------------------------------------------------------------------
(* The store: GoogleSheetsDB and CSVDatabase *)

\* bio[:500]
BioLimit == 500

TruncateBioNoLimit(bio) == bio

\* prospect.get('bio', '')[:500]
TruncateBio(bio) == Take(bio, BioLimit)

\* CSVDatabase: a list of signals is joined, falsy entries dropped; any
\* other value is written as it is
CsvSignalsCell(signals) ==
    IF signals.kind = "list"
    THEN StrCell(Join(SignalSep, Truthy(signals.val)))
    ELSE signals

\* GoogleSheetsDB: the value of prospect.get('signals', '') goes into the
\* row as it is
SheetsSignalsCell(signals) == signals

SignalsCell(b, signals) ==
    IF b = "csv" THEN CsvSignalsCell(signals) ELSE SheetsSignalsCell(signals)

\* the 20-column row both classes build
MakeRow(b, p) ==
    [ DateAdded    |-> "now",
      Name         |-> Get(p, "name", <<>>),
      Email        |-> Get(p, "email", <<>>),
      Location     |-> Get(p, "location", ""),
      Company      |-> Get(p, "company", ""),
      Title        |-> Get(p, "title", ""),
      LinkedIn     |-> Get(p, "linkedin_url", ""),
      Twitter      |-> Get(p, "twitter_url", Get(p, "twitter_handle", "")),
      GitHub       |-> Get(p, "github_url", ""),
      Website      |-> Get(p, "blog", Get(p, "website", "")),
      Source       |-> Get(p, "source", ""),
      Bio          |-> TruncateBio(Get(p, "bio", <<>>)),
      Signals      |-> SignalsCell(b, Get(p, "signals", StrCell(<<>>))),
      OverallScore |-> Get(p, "overall_score", StrCell("")),
      FounderScore |-> Get(p, "founder_score", StrCell("")),
      ThesisFit    |-> Get(p, "thesis_fit_score", StrCell("")),
      TimingScore  |-> Get(p, "timing_score", StrCell("")),
      SignalScore  |-> Get(p, "signal_strength_score", StrCell("")),
      Priority     |-> Get(p, "priority", ""),
      Reasoning    |-> Get(p, "reasoning", "") ]

\* GoogleSheetsDB._is_duplicate with both column reads succeeding
SheetsIsDuplicate(rs, p) ==
    LET names == {Normalize(rs[n].Name) : n \in {j \in 1..Len(rs) : rs[j].Name # <<>>}}
        emails == {Normalize(rs[n].Email) : n \in {j \in 1..Len(rs) : rs[j].Email # <<>>}}
        prospect_name == Normalize(Get(p, "name", <<>>))
        prospect_email == Normalize(Get(p, "email", <<>>))
    IN  \/ prospect_name # <<>> /\ prospect_name \in names
        \/ prospect_email # <<>> /\ prospect_email \in emails

\* CSVDatabase._is_duplicate with the file read succeeding
CsvIsDuplicate(rs, p) ==
    LET prospect_name == Normalize(Get(p, "name", <<>>))
        prospect_email == Normalize(Get(p, "email", <<>>))
    IN  \E n \in 1..Len(rs) :
            \/ prospect_name # <<>> /\ prospect_name = Normalize(rs[n].Name)
            \/ prospect_email # <<>> /\ prospect_email = Normalize(rs[n].Email)

IsDuplicateCrossField(b, rs, p) ==
    LET keys == {Normalize(rs[n].Name) : n \in 1..Len(rs)}
                \cup {Normalize(rs[n].Email) : n \in 1..Len(rs)}
    IN  \/ Normalize(Get(p, "name", <<>>)) \in keys \ {<<>>}
        \/ Normalize(Get(p, "email", <<>>)) \in keys \ {<<>>}

IsDuplicateMatchesEmpty(b, rs, p) ==
    \E n \in 1..Len(rs) :
        \/ Normalize(Get(p, "name", <<>>)) = Normalize(rs[n].Name)
        \/ Normalize(Get(p, "email", <<>>)) = Normalize(rs[n].Email)

IsDuplicateMatchesEmptyName(b, rs, p) ==
    \/ \E n \in 1..Len(rs) :
            Normalize(Get(p, "name", <<>>)) = Normalize(rs[n].Name)
    \/ \E n \in 1..Len(rs) :
            /\ Normalize(Get(p, "email", <<>>)) # <<>>
            /\ Normalize(Get(p, "email", <<>>)) = Normalize(rs[n].Email)

\* _is_duplicate of the class in use
IsDuplicate(b, rs, p) ==
    IF b = "csv" THEN CsvIsDuplicate(rs, p) ELSE SheetsIsDuplicate(rs, p)

\* _is_duplicate including its except branch: a failed read is logged and
\* answered with False
IsDuplicateOrReadError(b, rs, p, readFails) ==
    IF readFails THEN FALSE ELSE IsDuplicate(b, rs, p)

AppendRowAtFront(rs, row) == <<row>> \o rs

\* worksheet.append_row(row) / writer.writerow(row) on a file opened 'a'
AppendRow(rs, row) == Append(rs, row)

\* add_prospect: what it returns and the rows it leaves.  readFails and
\* appendFails are the backend raising in the duplicate check and in the
\* append; both are caught inside the class.
AddProspect(b, rs, p, readFails, appendFails) ==
    IF IsDuplicateOrReadError(b, rs, p, readFails)
    THEN [ret |-> FALSE, rows |-> rs]
    ELSE IF appendFails
    THEN [ret |-> FALSE, rows |-> rs]
    ELSE [ret |-> TRUE, rows |-> AppendRow(rs, MakeRow(b, p))]

----------------------------------------------------------------------------
(* Prospects offered to the store on its own *)

NameA == <<"a">>
NameAVariant == <<"A", " ">>
EmailA == <<"a">>
EmailAVariant == <<" ", "A">>

BioOfLength(n) == [k \in 1..n |-> "x"]

SignalX == <<"x">>
SignalY == <<"y">>

\* an optional key of a prospect dict: present with a value, or left out
Some(v) == [has |-> TRUE, v |-> v]
None == [has |-> FALSE]

\* a prospect dict; name is always present, the other keys may be left out
Prospect(name, email, bio, signals) ==
    LET keys == {"name"}
                \cup (IF email.has THEN {"email"} ELSE {})
                \cup (IF bio.has THEN {"bio"} ELSE {})
                \cup (IF signals.has THEN {"signals"} ELSE {})
    IN  [k \in keys |->
            CASE k = "name" -> name
              [] k = "email" -> email.v
              [] k = "bio" -> bio.v
              [] k = "signals" -> signals.v]

\* names and emails that collide after lower-casing and trimming, that
\* collide across the two fields, or that are empty
DedupProspects ==
    {Prospect(n, e, None, Some(ListCell(<<>>))) :
        n \in {NameA, NameAVariant, <<>>},
        e \in {None, Some(EmailA), Some(EmailAVariant)}}

\* bios around the 500-character limit and signals in every shape the
\* collectors and the legacy callers produce
PayloadProspects ==
    {Prospect(NameA, None, pl[1], pl[2]) :
        pl \in { <<None, None>>,
                 <<Some(BioOfLength(3)), Some(ListCell(<<SignalX, SignalY>>))>>,
                 <<Some(BioOfLength(BioLimit)), Some(StrCell(SignalX))>>,
                 <<Some(BioOfLength(BioLimit + 1)),
                   Some(ListCell(<<SignalX, <<>>, SignalY>>))>>,
                 <<Some(BioOfLength(900)), Some(ListCell(<<SignalX>>))>> }}

NoCall == [op |-> "none"]

\* whether the call before this one offered the same prospect without a
\* backend failure, and what it returned
RepeatOf(before, p) ==
    IF before.op = "add" /\ before.cand = p
       /\ ~before.readFails /\ ~before.appendFails
    THEN (IF before.ret THEN "accepted" ELSE "rejected")
    ELSE "none"

CallRecord(before, p, r, readFails, appendFails, len) ==
    [op |-> "add", cand |-> p, ret |-> r.ret,
     readFails |-> readFails, appendFails |-> appendFails,
     before |-> len, repeatOf |-> RepeatOf(before, p)]

----------------------------------------------------------------------------
(* The orchestrator: SourcingEngine *)

\* self.scrapers, a dict, iterated in insertion order
SourceOrder == <<"twitter", "github", "hackernews", "producthunt">>

NameB == <<"b">>
NameU == <<"u">>

\* one prospect per collector, shaped as that collector builds it; the
\* code host's display name differs from the microblog's only in case and
\* trailing space
SourceProspect(source) ==
    CASE source = "twitter" ->
            [name |-> NameA, twitter_handle |-> "ada",
             twitter_url |-> "https://twitter.com/ada", bio |-> BioOfLength(3),
             source |-> "Twitter", location |-> "Chicago, IL",
             signals |-> ListCell(<<BioOfLength(3)>>)]
      [] source = "github" ->
            [name |-> NameAVariant, github_username |-> "ada",
             github_url |-> "https://github.com/ada", bio |-> <<>>,
             company |-> "", location |-> "Chicago", blog |-> "",
             twitter_handle |-> "", email |-> <<>>, source |-> "GitHub",
             signals |-> ListCell(<<>>)]
      [] source = "hackernews" ->
            [name |-> NameB, hn_username |-> "b",
             hn_url |-> "https://news.ycombinator.com/user?id=b",
             bio |-> SignalX, website |-> "", source |-> "Hacker News",
             location |-> "Unknown",
             signals |-> ListCell(<<SignalX, SignalY>>)]
      [] source = "producthunt" ->
            [name |-> NameU, product_name |-> "x", product_url |-> "",
             bio |-> SignalY, source |-> "Product Hunt",
             location |-> "Unknown",
             signals |-> ListCell(<<SignalX, SignalY>>)]

\* the lists of at most n prospects a collector can return
RECURSIVE ListsUpTo(_, _)
ListsUpTo(pool, n) ==
    IF n = 0 THEN {<<>>}
    ELSE LET shorter == ListsUpTo(pool, n - 1)
         IN  shorter \cup {Append(l, x) : l \in shorter, x \in pool}

\* scraper.scrape(): it raises, or it returns a list
CollectorOutcomes(source) ==
    {[source |-> source, raised |-> TRUE, list |-> <<>>]}
    \cup {[source |-> source, raised |-> FALSE, list |-> l] :
            l \in ListsUpTo({SourceProspect(source)}, MaxProspects)}

ExtendOrDropAll(all, outcome) ==
    IF outcome.raised THEN <<>> ELSE all \o outcome.list

\* one pass of the loop body of scrape_all_sources: extend on success,
\* log and continue on an exception
ExtendWith(all, outcome) ==
    IF outcome.raised THEN all ELSE all \o outcome.list

\* the environment variables and services __init__ depends on
Environments ==
    [config : BOOLEAN, api_key : BOOLEAN, credentials_json : BOOLEAN,
     sheet_id : BOOLEAN, service : BOOLEAN]

InitFailureIgnoringKeys(e) ==
    IF ~e.config THEN "config"
    ELSE IF e.credentials_json /\ e.sheet_id /\ ~e.service THEN "service"
    ELSE "none"

\* SourcingEngine.__init__: the first constructor that raises, in the
\* order the constructors run, or "none"
InitFailure(e) ==
    IF ~e.config THEN "config"
    ELSE IF ~e.api_key THEN "api_key"
    ELSE IF ~e.credentials_json THEN "credentials_json"
    ELSE IF ~e.sheet_id THEN "sheet_id"
    ELSE IF ~e.service THEN "service"
    ELSE "none"

\* the stats dict store_prospects starts from
NewStats(prospects) ==
    [total |-> Len(prospects), new |-> 0, duplicates |-> 0, enriched |-> 0,
     scored |-> 0, high_priority |-> 0]

NoStats == NewStats(<<>>)

\* the address a code-host profile can declare
FoundEmail == <<"A">>

\* what _find_email can return for a prospect of a run: the profile's
\* address when there is a github_username to look up, else nothing, the
\* signals of these prospects holding no address
FindEmailOutcomes(p) ==
    {None} \cup (IF "github_username" \in DOMAIN p THEN {Some(FoundEmail)} ELSE {})

\* enrich_prospect as store_prospects sees it: a copy of the prospect, with
\* the email filled in when there was none and the lookups found one.  The
\* other keys it may add (linkedin_url, github_enrichment, current_company,
\* ...) take no part in duplicate detection or in the statistics and are
\* left out.
EnrichProspect(p, found) ==
    IF Get(p, "email", <<>>) = <<>> /\ found.has
    THEN [k \in DOMAIN p \cup {"email"} |-> IF k = "email" THEN found.v ELSE p[k]]
    ELSE p

\* the ScoreResult dicts a run is explored with: one per priority that
\* store_prospects tells apart
ScoreResult(priority, score) ==
    [overall_score |-> IntCell(score), founder_score |-> IntCell(score),
     thesis_fit_score |-> IntCell(score), timing_score |-> IntCell(score),
     signal_strength_score |-> IntCell(score), priority |-> priority,
     reasoning |-> "r"]

ScoreResults ==
    {ScoreResult("High", 90), ScoreResult("Medium", 50), ScoreResult("Low", 10)}

\* an update that leaves the priority of the result behind
UpdateDroppingPriority(p, d) ==
    [k \in DOMAIN p \cup DOMAIN d |->
        IF k = "priority" THEN "Medium"
        ELSE IF k \in DOMAIN d THEN d[k] ELSE p[k]]

\* enriched_prospect.update(score_data)
Update(p, d) ==
    [k \in DOMAIN p \cup DOMAIN d |-> IF k \in DOMAIN d THEN d[k] ELSE p[k]]

CountNewHighForAll(st, isNew, priority) ==
    [st EXCEPT !.new = @ + (IF isNew THEN 1 ELSE 0),
               !.duplicates = @ + (IF isNew THEN 0 ELSE 1),
               !.high_priority = @ + (IF priority = "High" THEN 1 ELSE 0)]

\* lines 119-129: what store_prospects counts once add_prospect returned
CountStored(st, isNew, priority) ==
    IF isNew
    THEN [st EXCEPT !.new = @ + 1,
                    !.high_priority = @ + (IF priority = "High" THEN 1 ELSE 0)]
    ELSE [st EXCEPT !.duplicates = @ + 1]

\* what the run has done so far: how often each step was called, how often
\* enrichment raised, how many prospects were scored High, how often the
\* append failed inside add_prospect, and how many rows the sheet held
\* when store_prospects began
NoHist ==
    [enrich_calls |-> 0, score_calls |-> 0, store_calls |-> 0,
     enrich_raised |-> 0, high_scored |-> 0, append_errors |-> 0,
     rows_at_start |-> 0]

NoEvent == [step |-> "none", outcome |-> "none"]

NoProspect == [name |-> <<>>]

\* the orchestrator's variables while it is not running
RunIdle ==
    /\ env = [config |-> TRUE, api_key |-> TRUE, credentials_json |-> TRUE,
              sheet_id |-> TRUE, service |-> TRUE]
    /\ pc = "idle"
    /\ srcIdx = 0
    /\ scraped = <<>>
    /\ all_prospects = <<>>
    /\ i = 0
    /\ step = "none"
    /\ cur = NoProspect
    /\ stats = NoStats
    /\ hist = NoHist
    /\ ev = NoEvent

----------------------------------------------------------------------------
(* The store driven on its own: any sequence of add_prospect calls *)

StoreInit ==
    /\ backend \in {"sheets", "csv"}
    /\ rows = <<>>
    /\ last = NoCall
    /\ RunIdle

\* one add_prospect call with a prospect of the set offered
StoreAdd(offered) ==
    \E p \in offered, readFails \in BOOLEAN, appendFails \in BOOLEAN :
        \E r \in {AddProspect(backend, rows, p, readFails, appendFails)} :
            /\ Len(r.rows) <= MaxRows
            /\ rows' = r.rows
            /\ last' = CallRecord(last, p, r, readFails, appendFails, Len(rows))
            /\ UNCHANGED <<backend, runVars>>

\* duplicate detection: prospects that differ in name and email only
StoreNext == StoreAdd(DedupProspects)

StoreSpec == StoreInit /\ [][StoreNext]_vars

\* row serialisation: prospects that differ in bio and signals
RowNext == StoreAdd(PayloadProspects)

RowSpec == StoreInit /\ [][RowNext]_vars

----------------------------------------------------------------------------
(* Two add_prospect calls on one store whose steps interleave.  A call is  *)
(* two steps, the duplicate check and the append; nothing in either class  *)
(* holds the store between them.                                           *)

\* a call that has not begun
Waiting(p) ==
    [cand |-> p, at |-> "start", ret |-> FALSE,
     readFails |-> FALSE, appendFails |-> FALSE]

AppendIfStillNew(b, rs, p) ==
    IF IsDuplicate(b, rs, p) THEN rs ELSE AppendRow(rs, MakeRow(b, p))

\* the row is built and appended to the store as it is now, without a
\* second look at it
AppendAfterCheck(b, rs, p) == AppendRow(rs, MakeRow(b, p))

RaceInit ==
    /\ backend \in {"sheets", "csv"}
    /\ rows = <<>>
    /\ last \in {[op |-> "race", calls |-> <<Waiting(p1), Waiting(p2)>>,
                  trace |-> <<>>] : p1 \in DedupProspects, p2 \in DedupProspects}
    /\ RunIdle

\* call c runs _is_duplicate: a duplicate makes it return False at once
RaceCheck(c) ==
    /\ last.calls[c].at = "start"
    /\ \E readFails \in BOOLEAN :
        last' = [last EXCEPT
                    !.calls[c].at =
                        IF IsDuplicateOrReadError(backend, rows,
                                                  last.calls[c].cand, readFails)
                        THEN "done" ELSE "checked",
                    !.calls[c].readFails = readFails,
                    !.trace = Append(@, <<c, "check">>)]
    /\ UNCHANGED <<backend, rows, runVars>>

\* call c, whose check answered False, appends its row and returns True,
\* or returns False when the append raises
RaceAppend(c) ==
    /\ last.calls[c].at = "checked"
    /\ \E appendFails \in BOOLEAN :
        /\ rows' = IF appendFails THEN rows
                   ELSE AppendAfterCheck(backend, rows, last.calls[c].cand)
        /\ last' = [last EXCEPT
                        !.calls[c].at = "done",
                        !.calls[c].ret = ~appendFails,
                        !.calls[c].appendFails = appendFails,
                        !.trace = Append(@, <<c, "append">>)]
    /\ UNCHANGED <<backend, runVars>>

RaceNext == \E c \in {1, 2} : RaceCheck(c) \/ RaceAppend(c)

RaceSpec == RaceInit /\ [][RaceNext]_vars

----------------------------------------------------------------------------
(* One run of main(): construct the engine, scrape, then the pipeline *)

\* a row an earlier run left in the sheet
SeedRow ==
    MakeRow("sheets", Update([name |-> NameB, source |-> "Hacker News",
                              signals |-> StrCell(SignalX)],
                             ScoreResult("High", 90)))

Init ==
    /\ backend = "sheets"
    /\ rows \in {<<>>, <<SeedRow>>}
    /\ last = NoCall
    /\ env \in Environments
    /\ pc = "boot"
    /\ srcIdx = 0
    /\ scraped = <<>>
    /\ all_prospects = <<>>
    /\ i = 0
    /\ step = "none"
    /\ cur = NoProspect
    /\ stats = NoStats
    /\ hist = NoHist
    /\ ev = NoEvent

\* main(): SourcingEngine() either raises out of main or hands the engine
\* to run()
Construct ==
    /\ pc = "boot"
    /\ pc' = IF InitFailure(env) = "none" THEN "scrape" ELSE "aborted"
    /\ srcIdx' = IF InitFailure(env) = "none" THEN 1 ELSE srcIdx
    /\ ev' = [step |-> "init", outcome |-> InitFailure(env)]
    /\ UNCHANGED <<backend, rows, last, env, scraped, all_prospects, i, step,
                   cur, stats, hist>>

\* scrape_all_sources: one pass of the loop over self.scrapers
Scrape ==
    /\ pc = "scrape"
    /\ srcIdx <= Len(SourceOrder)
    /\ \E outcome \in CollectorOutcomes(SourceOrder[srcIdx]) :
        /\ Len(all_prospects) + Len(outcome.list) <= MaxProspects
        /\ all_prospects' = ExtendWith(all_prospects, outcome)
        /\ scraped' = Append(scraped, outcome)
        /\ ev' = [step |-> "scrape",
                  outcome |-> IF outcome.raised THEN "raised" ELSE "returned"]
    /\ srcIdx' = srcIdx + 1
    /\ UNCHANGED <<backend, rows, last, env, pc, i, step, cur, stats, hist>>

\* scrape_all_sources has returned (its trace ends with the call) and
\* nothing was collected, so run() returns before store_prospects
ExitEmpty ==
    /\ pc = "scrape"
    /\ srcIdx > Len(SourceOrder)
    /\ all_prospects = <<>>
    /\ pc' = "done"
    /\ srcIdx' = 0
    /\ scraped' = <<>>
    /\ ev' = [step |-> "run", outcome |-> "no_prospects"]
    /\ UNCHANGED <<backend, rows, last, env, all_prospects, i, step, cur, stats,
                   hist>>

\* scrape_all_sources has returned; run() calls store_prospects, which sets
\* up stats and enters its loop
EnterPipeline ==
    /\ pc = "scrape"
    /\ srcIdx > Len(SourceOrder)
    /\ all_prospects # <<>>
    /\ pc' = "pipeline"
    /\ stats' = NewStats(all_prospects)
    /\ i' = 1
    /\ step' = "enrich"
    /\ srcIdx' = 0
    /\ scraped' = <<>>
    /\ hist' = [hist EXCEPT !.rows_at_start = Len(rows)]
    /\ ev' = [step |-> "run", outcome |-> "store_prospects"]
    /\ UNCHANGED <<backend, rows, last, env, all_prospects, cur>>

\* Step 1: enrich_prospect returns
Enrich ==
    /\ pc = "pipeline"
    /\ i <= Len(all_prospects)
    /\ step = "enrich"
    /\ \E found \in FindEmailOutcomes(all_prospects[i]) :
        cur' = EnrichProspect(all_prospects[i], found)
    /\ stats' = [stats EXCEPT !.enriched = @ + 1]
    /\ hist' = [hist EXCEPT !.enrich_calls = @ + 1]
    /\ step' = "score"
    /\ ev' = [step |-> "enrich", outcome |-> "ok"]
    /\ UNCHANGED <<backend, rows, last, env, pc, srcIdx, scraped,
                   all_prospects, i>>

\* Step 2: score_prospect returns and its result is merged in
Score ==
    /\ pc = "pipeline"
    /\ i <= Len(all_prospects)
    /\ step = "score"
    /\ \E score_data \in ScoreResults :
        /\ cur' = Update(cur, score_data)
        /\ hist' = [hist EXCEPT
                        !.score_calls = @ + 1,
                        !.high_scored =
                            @ + (IF score_data.priority = "High" THEN 1 ELSE 0)]
        /\ ev' = [step |-> "score", outcome |-> "ok", data |-> score_data]
    /\ stats' = [stats EXCEPT !.scored = @ + 1]
    /\ step' = "store"
    /\ UNCHANGED <<backend, rows, last, env, pc, srcIdx, scraped,
                   all_prospects, i>>

\* how a store step ended: the row went in, the duplicate check answered
\* True, or the append raised inside add_prospect
StoreOutcome(rs, p, r, readFails) ==
    IF r.ret THEN "new"
    ELSE IF IsDuplicateOrReadError("sheets", rs, p, readFails) THEN "duplicate"
    ELSE "append_error"

\* Steps 3 and 4: add_prospect returns and the result is counted
Store ==
    /\ pc = "pipeline"
    /\ i <= Len(all_prospects)
    /\ step = "store"
    /\ \E readFails \in BOOLEAN, appendFails \in BOOLEAN :
        \E r \in {AddProspect(backend, rows, cur, readFails, appendFails)} :
            /\ rows' = r.rows
            /\ stats' = CountStored(stats, r.ret, cur.priority)
            /\ ev' = [step |-> "store",
                      outcome |-> StoreOutcome(rows, cur, r, readFails)]
            /\ hist' = [hist EXCEPT
                            !.store_calls = @ + 1,
                            !.append_errors =
                                @ + (IF StoreOutcome(rows, cur, r, readFails)
                                        = "append_error" THEN 1 ELSE 0)]
    /\ i' = i + 1
    /\ step' = "enrich"
    /\ UNCHANGED <<backend, last, env, pc, srcIdx, scraped, all_prospects, cur>>

ContinueWithNextStep ==
    /\ i' = i
    /\ step' = "score"

RetrySameProspect ==
    /\ i' = i
    /\ step' = "enrich"

\* lines 131-133: the except clause ends the current prospect and the loop
\* goes on with the next one
SkipProspect ==
    /\ i' = i + 1
    /\ step' = "enrich"

\* Step 1 raises: enrich_prospect has no catch-all of its own, so an
\* exception in it reaches the except clause of store_prospects.  (The
\* bodies of score_prospect and add_prospect are wrapped in try/except
\* Exception and hand back a result instead.)
EnrichRaises ==
    /\ pc = "pipeline"
    /\ i <= Len(all_prospects)
    /\ step = "enrich"
    /\ SkipProspect
    /\ hist' = [hist EXCEPT !.enrich_calls = @ + 1, !.enrich_raised = @ + 1]
    /\ ev' = [step |-> "enrich", outcome |-> "raised"]
    /\ UNCHANGED <<backend, rows, last, env, pc, srcIdx, scraped,
                   all_prospects, cur, stats>>

\* store_prospects returns stats and run() logs the summary
Finish ==
    /\ pc = "pipeline"
    /\ i > Len(all_prospects)
    /\ pc' = "done"
    /\ ev' = [step |-> "run", outcome |-> "summary"]
    /\ UNCHANGED <<backend, rows, last, env, srcIdx, scraped, all_prospects,
                   i, step, cur, stats, hist>>

Next ==
    \/ Construct
    \/ Scrape
    \/ ExitEmpty
    \/ EnterPipeline
    \/ Enrich
    \/ Score
    \/ Store
    \/ EnrichRaises
    \/ Finish

Spec == Init /\ [][Next]_vars

----------------------------------------------------------------------------
(* The scorer: ClaudeScorer.score_prospect and _parse_claude_response.    *)
(* A response line is a sequence of tokens: a label, ":", " " or a piece  *)
(* of text without colon or blank.                                         *)

ScoreFields ==
    {"founder_score", "thesis_fit_score", "timing_score",
     "signal_strength_score", "overall_score"}

\* required, lines 122-123
RequiredFields == ScoreFields \cup {"priority", "reasoning"}

\* the elif chain of lines 106-119, in its order: label and field
LabelOrder ==
    << [label |-> "FOUNDER_SCORE", field |-> "founder_score"],
       [label |-> "THESIS_FIT_SCORE", field |-> "thesis_fit_score"],
       [label |-> "TIMING_SCORE", field |-> "timing_score"],
       [label |-> "SIGNAL_STRENGTH_SCORE", field |-> "signal_strength_score"],
       [label |-> "OVERALL_SCORE", field |-> "overall_score"],
       [label |-> "PRIORITY", field |-> "priority"],
       [label |-> "REASONING", field |-> "reasoning"] >>

\* 'LABEL:' in line
HasLabel(line, label) ==
    \E k \in 1..(Len(line) - 1) : line[k] = label /\ line[k + 1] = ":"

\* the position of the first ":" of a line, or 0
FirstColon(line) ==
    IF \E k \in 1..Len(line) : line[k] = ":"
    THEN CHOOSE k \in 1..Len(line) :
            line[k] = ":" /\ \A j \in 1..(k - 1) : line[j] # ":"
    ELSE 0

\* line.split(':', 1)[1], for a line that holds a colon
AfterFirstColon(line) == SubSeq(line, FirstColon(line) + 1, Len(line))

\* line.split(':')[1], for a line that holds a colon
SecondField(line) ==
    LET rest == AfterFirstColon(line)
    IN  IF FirstColon(rest) = 0 THEN rest
        ELSE SubSeq(rest, 1, FirstColon(rest) - 1)

\* the text a sequence of tokens stands for
RECURSIVE TextOf(_)
TextOf(tokens) ==
    IF tokens = <<>> THEN "" ELSE Head(tokens) \o TextOf(Tail(tokens))

\* the integers whose decimal form the model's responses can hold
IntLiterals == {-5, 0, 50, 60, 70, 75, 80, 90, 100, 150}

IntOrDefault(text) ==
    IF \E n \in IntLiterals : ToString(n) = text
    THEN [ok |-> TRUE, v |-> CHOOSE n \in IntLiterals : ToString(n) = text]
    ELSE [ok |-> TRUE, v |-> 50]

\* int(text): the number, or ValueError
IntOrFail(text) ==
    IF \E n \in IntLiterals : ToString(n) = text
    THEN [ok |-> TRUE, v |-> CHOOSE n \in IntLiterals : ToString(n) = text]
    ELSE [ok |-> FALSE]

\* the first branch of the elif chain that a line takes, or 0
BranchOf(line) ==
    IF \E k \in 1..Len(LabelOrder) : HasLabel(line, LabelOrder[k].label)
    THEN CHOOSE k \in 1..Len(LabelOrder) :
            /\ HasLabel(line, LabelOrder[k].label)
            /\ \A j \in 1..(k - 1) : ~HasLabel(line, LabelOrder[j].label)
    ELSE 0

\* scores[field] = value
SetField(scores, field, value) ==
    [f \in DOMAIN scores \cup {field} |->
        IF f = field THEN value ELSE scores[f]]

\* lines 105-119: the loop over the lines; a score line whose value is no
\* integer raises out of the loop
RECURSIVE ParseLines(_, _)
ParseLines(lines, scores) ==
    IF lines = <<>> THEN [failed |-> FALSE, scores |-> scores]
    ELSE LET line == Head(lines)
             b == BranchOf(line)
         IN  IF b = 0 THEN ParseLines(Tail(lines), scores)
             ELSE IF LabelOrder[b].field \in ScoreFields
             THEN LET n == IntOrFail(TextOf(Strip(SecondField(line))))
                  IN  IF n.ok
                      THEN ParseLines(Tail(lines),
                               SetField(scores, LabelOrder[b].field, IntCell(n.v)))
                      ELSE [failed |-> TRUE, scores |-> scores]
             ELSE IF LabelOrder[b].field = "priority"
             THEN ParseLines(Tail(lines),
                      SetField(scores, "priority",
                               TextOf(Strip(SecondField(line)))))
             ELSE ParseLines(Tail(lines),
                      SetField(scores, "reasoning",
                               TextOf(Strip(AfterFirstColon(line)))))

\* lines 129-134: the default of a field the response did not give
DefaultFor(field) ==
    IF field = "priority" THEN "Medium"
    ELSE IF field = "reasoning" THEN "Incomplete scoring response"
    ELSE IntCell(50)

FillDefaultsAllOrNothing(scores) ==
    [f \in RequiredFields |->
        IF DOMAIN scores = RequiredFields THEN scores[f] ELSE DefaultFor(f)]

\* lines 125-134: every required field that is missing gets its default
FillDefaults(scores) ==
    [f \in RequiredFields |->
        IF f \in DOMAIN scores THEN scores[f] ELSE DefaultFor(f)]

\* the dict both except clauses build, with its reasoning
NeutralResult(reasoning) ==
    [overall_score |-> IntCell(50), founder_score |-> IntCell(50),
     thesis_fit_score |-> IntCell(50), timing_score |-> IntCell(50),
     signal_strength_score |-> IntCell(50), priority |-> "Medium",
     reasoning |-> reasoning]

\* lines 138-148
ParseErrorResult == NeutralResult("Error parsing scoring response")

\* _parse_claude_response
ParseClaudeResponse(lines) ==
    LET parsed == ParseLines(lines, <<>>)
    IN  IF parsed.failed THEN ParseErrorResult
        ELSE FillDefaults(parsed.scores)

ErrorResultWithoutCause(cause) == NeutralResult("Error during scoring")

\* lines 49-60: f'Error during scoring: {str(e)}'
ErrorResult(cause) == NeutralResult("Error during scoring: " \o cause)

\* what self.client.messages.create and response.content[0].text can do:
\* the call raises, the response has no content block, its first block has
\* no text attribute, or there is a text
ServiceFailures ==
    { [kind |-> "raises", cause |-> "Connection error."],
      [kind |-> "raises", cause |-> "rate_limit_error"],
      [kind |-> "no_content", cause |-> "list index out of range"],
      [kind |-> "no_text",
       cause |-> "'ToolUseBlock' object has no attribute 'text'"] }

\* score_prospect
ScoreProspect(outcome) ==
    IF outcome.kind = "text" THEN ParseClaudeResponse(outcome.lines)
    ELSE ErrorResult(outcome.cause)

\* 'LABEL: value'
LabelLine(label, value) == <<label, ":", " ">> \o value

\* the responses offered to the parser: one line per label in the order
\* of the prompt, each label's line left blank or filled with one of its
\* values; the values cover integers in and out of 0..100, text that is no
\* integer, priorities in and out of the enumeration, a reasoning with a
\* colon in it, and reasonings that name another label
ResponseTexts ==
    { << IF f = <<>> THEN <<>> ELSE LabelLine("FOUNDER_SCORE", f),
         IF t = <<>> THEN <<>> ELSE LabelLine("THESIS_FIT_SCORE", t),
         IF m = <<>> THEN <<>> ELSE LabelLine("TIMING_SCORE", m),
         IF g = <<>> THEN <<>> ELSE LabelLine("SIGNAL_STRENGTH_SCORE", g),
         IF o = <<>> THEN <<>> ELSE LabelLine("OVERALL_SCORE", o),
         IF q = <<>> THEN <<>> ELSE LabelLine("PRIORITY", q),
         IF r = <<>> THEN <<>> ELSE LabelLine("REASONING", r) >> :
        f \in {<<>>, <<"80">>, <<"high">>},
        t \in {<<>>, <<"70">>},
        m \in {<<>>, <<"60">>, <<"85/100">>, <<"-5">>},
        g \in {<<>>, <<"90">>},
        o \in {<<>>, <<"75", " ">>, <<"150">>},
        q \in {<<>>, <<"High">>, <<"Low">>, <<"Urgent">>},
        r \in {<<>>, <<"solid", " ", "founder">>,
               <<"strong", ":", " ", "ships">>,
               <<"next", " ", "PRIORITY", ":", " ", "growth">>,
               <<"low", " ", "FOUNDER_SCORE", ":", " ", "weak">>} }

ServiceOutcomes ==
    ServiceFailures \cup {[kind |-> "text", lines |-> l] : l \in ResponseTexts}

ScoreInit ==
    /\ backend = "sheets"
    /\ rows = <<>>
    /\ last = NoCall
    /\ RunIdle

\* one score_prospect call; the scorer keeps nothing between calls, so one
\* call is observed
ScoreCall ==
    \E outcome \in ServiceOutcomes :
        /\ last = NoCall
        /\ last' = [op |-> "score", service |-> outcome,
                    ret |-> ScoreProspect(outcome)]
        /\ UNCHANGED <<backend, rows, runVars>>

ScoreNext == ScoreCall

ScoreSpec == ScoreInit /\ [][ScoreNext]_vars

----------------------------------------------------------------------------
(* The enricher: AutoEnricher.  Its regular expressions are carried out     *)
(* on sequences of characters; the texts hold ASCII letters, digits,       *)
(* blanks and punctuation, and no line break.                              *)

LowerLetters ==
    {"a", "b", "c", "d", "e", "f", "g", "h", "i", "j", "k", "l", "m",
     "n", "o", "p", "q", "r", "s", "t", "u", "v", "w", "x", "y", "z"}

UpperLetters == {ch \in DOMAIN UpperToLower : TRUE}

Letters == LowerLetters \cup UpperLetters

Digits == {"0", "1", "2", "3", "4", "5", "6", "7", "8", "9"}

\* \w
WordChars == Letters \cup Digits \cup {"_"}

\* [\w\s]
WordSpace == WordChars \cup Whitespace

\* [\s@]
SepChars == Whitespace \cup {"@"}

\* [A-Za-z0-9._%+-]
LocalChars == Letters \cup Digits \cup {".", "_", "%", "+", "-"}

\* [A-Za-z0-9.-]
DomainChars == Letters \cup Digits \cup {".", "-"}

\* [A-Z|a-z]
TldChars == Letters \cup {"|"}

\* [a-zA-Z0-9-]
SlugChars == Letters \cup Digits \cup {"-"}

Min(S) == CHOOSE x \in S : \A y \in S : x <= y
Max(S) == CHOOSE x \in S : \A y \in S : y <= x

\* the last position of the run of characters of cs that starts at
\* position from; from - 1 when that character is not in cs
RECURSIVE RunEnd(_, _, _)
RunEnd(text, from, cs) ==
    IF from <= Len(text) /\ text[from] \in cs
    THEN RunEnd(text, from + 1, cs)
    ELSE from - 1

\* the first position of the run of characters of cs that ends at
\* position to; to + 1 when that character is not in cs
RECURSIVE RunStart(_, _, _)
RunStart(text, to, cs) ==
    IF to >= 1 /\ text[to] \in cs
    THEN RunStart(text, to - 1, cs)
    ELSE to + 1

\* \b in front of position pos
Boundary(text, pos) ==
    (pos >= 2 /\ text[pos - 1] \in WordChars)
        # (pos <= Len(text) /\ text[pos] \in WordChars)

\* pat is in text at position k
OccursAt(text, pat, k) ==
    /\ k >= 1
    /\ k + Len(pat) - 1 <= Len(text)
    /\ SubSeq(text, k, k + Len(pat) - 1) = pat

\* the same under re.IGNORECASE
OccursAtIgnoreCase(text, pat, k) ==
    /\ k >= 1
    /\ k + Len(pat) - 1 <= Len(text)
    /\ Lower(SubSeq(text, k, k + Len(pat) - 1)) = Lower(pat)

\* s.strip(chars)
RECURSIVE StripChars(_, _)
StripChars(s, cs) ==
    IF s # <<>> /\ Head(s) \in cs THEN StripChars(Tail(s), cs)
    ELSE IF s # <<>> /\ s[Len(s)] \in cs
    THEN StripChars(SubSeq(s, 1, Len(s) - 1), cs)
    ELSE s

\* s.split(ch)[1], for an s that holds ch
SplitSecond(s, ch) ==
    LET first == Min({n \in 1..Len(s) : s[n] = ch})
        rest == SubSeq(s, first + 1, Len(s))
        nexts == {n \in 1..Len(rest) : rest[n] = ch}
    IN  IF nexts = {} THEN rest ELSE SubSeq(rest, 1, Min(nexts) - 1)

\* invalid_domains
InvalidDomains ==
    { <<"e", "x", "a", "m", "p", "l", "e", ".", "c", "o", "m">>,
      <<"t", "e", "s", "t", ".", "c", "o", "m">>,
      <<"d", "o", "m", "a", "i", "n", ".", "c", "o", "m">>,
      <<"e", "m", "a", "i", "l", ".", "c", "o", "m">>,
      <<"m", "a", "i", "l", ".", "c", "o", "m">>,
      <<"p", "l", "a", "c", "e", "h", "o", "l", "d", "e", "r", ".", "c", "o",
          "m">> }

\* the format check of _is_valid_email:
\* re.match(r'^[A-Za-z0-9._%+-]+@[A-Za-z0-9.-]+\.[A-Z|a-z]{2,}$', email)
EmailFormatOk(email) ==
    \E at \in 2..Len(email) :
        /\ email[at] = "@"
        /\ RunStart(email, at - 1, LocalChars) = 1
        /\ \E dot \in (at + 2)..RunEnd(email, at + 1, DomainChars) :
            /\ email[dot] = "."
            /\ dot + 2 <= Len(email)
            /\ RunEnd(email, dot + 1, TldChars) = Len(email)

\* _is_valid_email with the domain compared as written
IsValidEmailCaseSensitive(email) ==
    IF email = <<>> THEN FALSE
    ELSE LET domain == IF \E n \in 1..Len(email) : email[n] = "@"
                       THEN SplitSecond(email, "@")
                       ELSE <<>>
         IN  IF domain \in InvalidDomains THEN FALSE ELSE EmailFormatOk(email)

\* _is_valid_email
IsValidEmail(email) ==
    IF email = <<>> THEN FALSE
    ELSE LET domain == IF \E n \in 1..Len(email) : email[n] = "@"
                       THEN Lower(SplitSecond(email, "@"))
                       ELSE <<>>
         IN  IF domain \in InvalidDomains THEN FALSE ELSE EmailFormatOk(email)

\* email_pattern, \b[A-Za-z0-9._%+-]+@[A-Za-z0-9.-]+\.[A-Z|a-z]{2,}\b:
\* where a match around the "@" of position at can start.  The local part
\* holds no "@", so a match starts inside the run of local-part characters
\* that ends in front of the "@".
EmailStarts(text, at) ==
    {s \in RunStart(text, at - 1, LocalChars)..(at - 1) : Boundary(text, s)}

\* where a match around the "@" of position at can end: after a dot of the
\* run of domain characters, two or more characters of [A-Z|a-z] and \b
EmailEnds(text, at) ==
    {e \in (at + 4)..Len(text) :
        \E dot \in (at + 2)..RunEnd(text, at + 1, DomainChars) :
            /\ text[dot] = "."
            /\ dot + 2 <= e
            /\ e <= RunEnd(text, dot + 1, TldChars)
            /\ Boundary(text, e + 1)}

\* re.search(email_pattern, text).group(0): the leftmost match, which the
\* greedy quantifiers extend to the last end it can have
EmailSearch(text) ==
    LET ats == {at \in 2..Len(text) :
                    /\ text[at] = "@"
                    /\ EmailStarts(text, at) # {}
                    /\ EmailEnds(text, at) # {}}
    IN  IF ats = {} THEN None
        ELSE Some(SubSeq(text, Min(EmailStarts(text, Min(ats))),
                         Max(EmailEnds(text, Min(ats)))))

\* _extract_email_from_text
ExtractEmailFromText(text) ==
    IF text = <<>> THEN None
    ELSE IF EmailSearch(text).has /\ IsValidEmail(EmailSearch(text).v)
    THEN EmailSearch(text)
    ELSE None

\* the literal 'linkedin.com/in/' of linkedin_pattern
LinkedinPath == <<"l", "i", "n", "k", "e", "d", "i", "n", ".", "c", "o", "m",
    "/", "i", "n", "/">>

\* the literal 'https://www.linkedin.com/in/'
LinkedinUrl == <<"h", "t", "t", "p", "s", ":", "/", "/", "w", "w", "w", ".",
    "l", "i", "n", "k", "e", "d", "i", "n", ".", "c", "o", "m", "/", "i",
    "n", "/">>

\* _extract_linkedin_from_text: linkedin\.com/in/([a-zA-Z0-9-]+)
ExtractLinkedinFromText(text) ==
    LET ks == {k \in 1..Len(text) :
                /\ OccursAt(text, LinkedinPath, k)
                /\ RunEnd(text, k + Len(LinkedinPath), SlugChars)
                        >= k + Len(LinkedinPath)}
    IN  IF text = <<>> \/ ks = {} THEN None
        ELSE Some(LinkedinUrl
                    \o SubSeq(text, Min(ks) + Len(LinkedinPath),
                              RunEnd(text, Min(ks) + Len(LinkedinPath),
                                     SlugChars)))

\* (?:Engineer|Developer|Designer|PM|Manager|Director|Founder|CEO|CTO)
RoleKeywords ==
    { <<"E", "n", "g", "i", "n", "e", "e", "r">>,
      <<"D", "e", "v", "e", "l", "o", "p", "e", "r">>,
      <<"D", "e", "s", "i", "g", "n", "e", "r">>,
      <<"P", "M">>,
      <<"M", "a", "n", "a", "g", "e", "r">>,
      <<"D", "i", "r", "e", "c", "t", "o", "r">>,
      <<"F", "o", "u", "n", "d", "e", "r">>,
      <<"C", "E", "O">>,
      <<"C", "T", "O">> }

\* the last position of the role keyword that is at position k, if any;
\* no keyword is the beginning of another
KeywordEnds(text, k) ==
    {k + Len(kw) - 1 : kw \in {w \in RoleKeywords : OccursAtIgnoreCase(text, w, k)}}

\* [\s@]+at[\s@]+([\w\s]+) behind a keyword that ends at kend: group 2, or
\* nothing.  The second [\s@]+ gives back as few blanks as let group 2
\* start.
RoleTail(text, kend) ==
    LET q == RunEnd(text, kend + 1, SepChars)
        r == RunEnd(text, q + 3, SepChars)
        cs == {c \in (q + 4)..(r + 1) : c <= Len(text) /\ text[c] \in WordSpace}
    IN  IF q < kend + 1 \/ ~OccursAtIgnoreCase(text, <<"a", "t">>, q + 1)
        THEN None
        ELSE IF r < q + 3 \/ cs = {} THEN None
        ELSE Some(SubSeq(text, Max(cs), RunEnd(text, Max(cs), WordSpace)))

\* the positions of the keywords that can end group 1: one or more
\* characters of [\w\s] in front and the rest of the pattern behind
RoleKeywordStarts(text) ==
    {k \in 2..Len(text) :
        /\ text[k - 1] \in WordSpace
        /\ \E kend \in KeywordEnds(text, k) : RoleTail(text, kend).has}

\* re.search(r'([\w\s]+(?:Engineer|...|CTO))[\s@]+at[\s@]+([\w\s]+)', text,
\* re.IGNORECASE): the match that starts leftmost, its greedy group 1
\* reaching to the last keyword it can end with; title is group(1).strip()
\* and company is group(2).strip()
RoleSearch(text) ==
    LET ks == RoleKeywordStarts(text)
        start == Min({RunStart(text, k - 1, WordSpace) : k \in ks})
        k == Max({n \in ks : RunStart(text, n - 1, WordSpace) = start})
        kend == CHOOSE e \in KeywordEnds(text, k) : TRUE
    IN  IF ks = {} THEN None
        ELSE Some([title |-> Strip(SubSeq(text, start, kend)),
                   company |-> Strip(RoleTail(text, kend).v)])

\* the fields of the public profile that api.github.com/users/<name>
\* answers with and that the enricher reads; a null field is the empty
\* text, which the code treats alike
Profile(email, bio, blog, company) ==
    [email |-> email, bio |-> bio, blog |-> blog, company |-> company]

EmptyProfile == Profile(<<>>, <<>>, <<>>, <<>>)

\* one session.get of the profile: answered with status 200 ("ok"),
\* answered with another status ("non200"), or raising ("raises": a
\* connection error, a timeout, a body that is no JSON); "none" where no
\* request is made
Fetch(status, profile) ==
    [status |-> status, profile |-> IF status = "ok" THEN profile ELSE EmptyProfile]

\* a request whose exception no except clause receives
UncaughtFetch(fetch) ==
    [raised |-> fetch.status = "raises", ok |-> fetch.status = "ok"]

\* try: response = self.session.get(...) ... except Exception: what the
\* code behind the block sees of the request
CaughtFetch(fetch) == [raised |-> FALSE, ok |-> fetch.status = "ok"]

\* a sub-step that is not entered
NotCalled == [raised |-> FALSE, v |-> None]

\* for signal in prospect.get('signals', []): the strings the loop visits;
\* a signals value that is one string is visited character by character
SignalTexts(prospect) ==
    LET signals == Get(prospect, "signals", ListCell(<<>>))
    IN  IF signals.kind = "list" THEN signals.val
        ELSE [n \in 1..Len(signals.val) |-> <<signals.val[n]>>]

\* the first result that is not None, in signal order
FirstFound(results) ==
    LET ns == {n \in 1..Len(results) : results[n].has}
    IN  IF ns = {} THEN None ELSE results[Min(ns)]

\* _find_email
FindEmail(prospect, fetch) ==
    LET asked == Get(prospect, "github_username", <<>>) # <<>>
        texts == SignalTexts(prospect)
    IN  IF asked /\ CaughtFetch(fetch).raised
        THEN [raised |-> TRUE, v |-> None]
        ELSE IF /\ asked
                /\ CaughtFetch(fetch).ok
                /\ fetch.profile.email # <<>>
                /\ IsValidEmail(fetch.profile.email)
        THEN [raised |-> FALSE, v |-> Some(fetch.profile.email)]
        ELSE [raised |-> FALSE,
              v |-> FirstFound([n \in 1..Len(texts) |->
                                    ExtractEmailFromText(texts[n])])]

\* _find_linkedin
FindLinkedin(prospect, fetch) ==
    LET asked == Get(prospect, "github_username", <<>>) # <<>>
        texts == SignalTexts(prospect)
        declared == ExtractLinkedinFromText(
                        fetch.profile.bio \o <<" ">> \o fetch.profile.blog)
    IN  IF asked /\ CaughtFetch(fetch).raised
        THEN [raised |-> TRUE, v |-> None]
        ELSE IF asked /\ CaughtFetch(fetch).ok /\ declared.has
        THEN [raised |-> FALSE, v |-> declared]
        ELSE [raised |-> FALSE,
              v |-> FirstFound([n \in 1..Len(texts) |->
                                    ExtractLinkedinFromText(texts[n])])]

\* _enrich_github: the sub-record, or the empty dict (None here); location,
\* twitter, public_repos, followers and created_at are copied like bio and
\* blog and read nowhere
EnrichGithub(username, fetch) ==
    IF CaughtFetch(fetch).raised THEN [raised |-> TRUE, v |-> None]
    ELSE IF CaughtFetch(fetch).ok
    THEN [raised |-> FALSE,
          v |-> Some([bio |-> fetch.profile.bio,
                      company |-> fetch.profile.company,
                      blog |-> fetch.profile.blog])]
    ELSE [raised |-> FALSE, v |-> None]

\* the literal 'https://twitter.com/'
TwitterUrl == <<"h", "t", "t", "p", "s", ":", "/", "/", "t", "w", "i", "t",
    "t", "e", "r", ".", "c", "o", "m", "/">>

\* _enrich_twitter
EnrichTwitter(handle) ==
    [handle |-> StripChars(handle, {"@"}),
     url |-> TwitterUrl \o StripChars(handle, {"@"})]

\* _infer_current_role: (company, title), None where nothing was inferred
InferCurrentRole(prospect) ==
    LET github_company ==
            Get(Get(prospect, "github_enrichment", <<>>), "company", <<>>)
        texts == SignalTexts(prospect)
        found == FirstFound([n \in 1..Len(texts) |-> RoleSearch(texts[n])])
    IN  IF found.has
        THEN [company |-> Some(found.v.company), title |-> Some(found.v.title)]
        ELSE [company |->
                IF github_company # <<>>
                THEN Some(Strip(StripChars(github_company, {"@"})))
                ELSE None,
              title |-> None]

\* d[key] = value
SetKey(d, key, value) ==
    [k \in DOMAIN d \cup {key} |-> IF k = key THEN value ELSE d[k]]

\* if found: d[key] = found, for a dict that was found
SetIfFound(d, key, found) ==
    IF found.has THEN SetKey(d, key, found.v) ELSE d

\* if found: d[key] = found, for a text that was found
SetIfText(d, key, found) ==
    IF found.has /\ found.v # <<>> THEN SetKey(d, key, found.v) ELSE d

\* enrich_prospect with its requests answered as net says: whether it
\* raised, and the dict it returned
EnrichProspectWith(prospect, net) ==
    LET username == Get(prospect, "github_username", <<>>)
        handle == Get(prospect, "twitter_handle", <<>>)
        email == IF Get(prospect, "email", <<>>) = <<>>
                 THEN FindEmail(prospect, net.email_fetch)
                 ELSE NotCalled
        linkedin == IF Get(prospect, "linkedin_url", <<>>) = <<>>
                    THEN FindLinkedin(prospect, net.linkedin_fetch)
                    ELSE NotCalled
        github == IF username # <<>>
                  THEN EnrichGithub(username, net.github_fetch)
                  ELSE NotCalled
        twitter == IF handle # <<>> THEN Some(EnrichTwitter(handle)) ELSE None
        role == IF Get(prospect, "current_company", <<>>) = <<>>
                THEN InferCurrentRole(prospect)
                ELSE [company |-> None, title |-> None]
        enriched ==
            SetIfText(
                SetIfText(
                    SetIfFound(
                        SetIfFound(
                            SetIfText(
                                SetIfText(prospect, "email", email.v),
                                "linkedin_url", linkedin.v),
                            "github_enrichment", github.v),
                        "twitter_enrichment", twitter),
                    "current_company", role.company),
                "current_title", role.title)
    IN  IF email.raised \/ linkedin.raised \/ github.raised
        THEN [raised |-> TRUE, out |-> NoProspect]
        ELSE [raised |-> FALSE, out |-> enriched]

----------------------------------------------------------------------------
(* The enricher driven on its own: one enrich_prospect call *)

SignalRole == <<"S", "e", "n", "i", "o", "r", " ", "E", "n", "g", "i", "n",
    "e", "e", "r", " ", "a", "t", " ", "S", "t", "r", "i", "p", "e">>
SignalBareRole == <<"C", "T", "O", " ", "a", "t", " ", "A", "c", "m", "e">>
SignalLaterRole == <<"L", "e", "a", "d", " ", "D", "e", "v", "e", "l", "o",
    "p", "e", "r", " ", "a", "t", " ", "I", "n", "i", "t", "e", "c", "h">>
SignalContact == <<"m", "a", "i", "l", " ", "a", "d", "a", "@", "a", "c",
    "m", "e", ".", "i", "o">>
SignalLinkedin == <<"s", "e", "e", " ", "l", "i", "n", "k", "e", "d", "i",
    "n", ".", "c", "o", "m", "/", "i", "n", "/", "a", "d", "a", "-", "l">>
SignalPlaceholderFirst == <<"b", "o", "b", "@", "E", "x", "a", "m", "p", "l",
    "e", ".", "C", "O", "M", " ", "o", "r", " ", "a", "d", "a", "@", "a",
    "c", "m", "e", ".", "i", "o">>

\* the signals of a candidate: none, a role, a role behind one that the
\* pattern misses, an address and a profile link, a placeholder address in
\* front of a real one, all three kinds, and one string in place of a list
SignalCells ==
    { ListCell(<<>>),
      ListCell(<<SignalRole>>),
      ListCell(<<SignalBareRole, SignalLaterRole, SignalRole>>),
      ListCell(<<SignalContact, SignalLinkedin>>),
      ListCell(<<SignalPlaceholderFirst, SignalContact>>),
      ListCell(<<SignalRole, SignalContact, SignalLinkedin>>),
      StrCell(SignalContact) }

UpperChar(ch) ==
    IF ch \in LowerLetters
    THEN CHOOSE u \in DOMAIN UpperToLower : UpperToLower[u] = ch
    ELSE ch

\* every placeholder domain as listed, in capitals, and capitalised
PlaceholderSpellings ==
    UNION {{d, [n \in 1..Len(d) |-> UpperChar(d[n])],
            <<UpperChar(d[1])>> \o Tail(d)} : d \in InvalidDomains}

PlaceholderAddress(domain) == <<"b", "o", "b", "@">> \o domain

AdaEmail == <<"a", "d", "a", "@", "a", "c", "m", "e", ".", "i", "o">>

\* the address a profile declares: none, a real one, one with a second
\* "@", one without a top-level domain, and the placeholder addresses
ProfileEmails ==
    {<<>>, AdaEmail, <<"a", "d", "a", "@", "a", "c", "m", "e", ".", "i", "o",
        "@", "t", "e", "s", "t", ".", "c", "o", "m">>, <<"a", "d", "a", "@",
        "a", "c", "m", "e">>}
        \cup {PlaceholderAddress(d) : d \in PlaceholderSpellings}

FullProfile ==
    Profile(AdaEmail, <<"h", "a", "c", "k", "e", "r">>, <<"l", "i", "n", "k",
        "e", "d", "i", "n", ".", "c", "o", "m", "/", "i", "n", "/", "a", "d",
        "a">>, <<"@", "s", "t", "r", "i", "p", "e">>)

Profiles ==
    {Profile(e, <<>>, <<>>, <<>>) : e \in ProfileEmails}
        \cup {Profile(<<>>, bb[1], bb[2], c) :
                bb \in {<<<<>>, <<>>>>,
                        <<<<"h", "a", "c", "k", "e", "r">>, <<"l", "i", "n",
                            "k", "e", "d", "i", "n", ".", "c", "o", "m", "/",
                            "i", "n", "/", "a", "d", "a">>>>},
                c \in {<<>>, <<"@", "s", "t", "r", "i", "p", "e">>, <<"A",
                    "c", "m", "e", " ">>}}

\* how the three requests of one enrich_prospect call are answered: the
\* one of _find_email, the one of _find_linkedin, the one of _enrich_github
Net(profile, s1, s2, s3) ==
    [email_fetch |-> Fetch(s1, profile),
     linkedin_fetch |-> Fetch(s2, profile),
     github_fetch |-> Fetch(s3, profile)]

Statuses == {"ok", "non200", "raises"}

\* every combination of requests that fail, for a profile that declares
\* an address, a link and a company
FailingNets ==
    {Net(FullProfile, s1, s2, s3) : s1 \in Statuses, s2 \in Statuses,
                                    s3 \in Statuses}

AnsweringNets == {Net(p, "ok", "ok", "ok") : p \in Profiles}

\* a candidate without github_username has no request made
NoRequests == Net(EmptyProfile, "none", "none", "none")

NameAda == <<"A", "d", "a">>

\* the values of the keys a candidate can bring along
GivenValues ==
    [email |-> <<"o", "l", "d", "@", "c", "o", "r", "p", ".", "i", "o">>,
     linkedin_url |-> LinkedinUrl \o <<"o", "l", "d">>,
     current_company |-> <<"I", "n", "i", "t", "e", "c", "h">>,
     current_title |-> <<"C", "T", "O">>,
     github_enrichment |->
        [bio |-> <<>>, company |-> <<"@", "i", "n", "i", "t", "e", "c", "h",
            " ">>, blog |-> <<>>],
     twitter_enrichment |-> [handle |-> <<"o", "l", "d">>, url |-> <<"o",
         "l", "d">>]]

\* a prospect dict with name, signals and the keys named
Candidate(keys, signals) ==
    [k \in {"name", "signals"} \cup keys |->
        CASE k = "name" -> NameAda
          [] k = "signals" -> signals
          [] k = "github_username" -> <<"a", "d", "a">>
          [] k = "twitter_handle" -> <<"@", "a", "d", "a">>
          [] OTHER -> GivenValues[k]]

\* the calls explored: candidates with a profile to look up, under every
\* failure of the requests and every profile; candidates without one, with
\* every placeholder address in their signals; candidates that bring any
\* of the enriched keys along; candidates that bring a github_enrichment
EnrichInputs ==
    {<<Candidate({"github_username"}, s), net>> :
        s \in SignalCells, net \in FailingNets \cup AnsweringNets}
    \cup {<<Candidate({}, s), NoRequests>> : s \in SignalCells}
    \cup {<<Candidate({}, ListCell(<<PlaceholderAddress(d)>>)), NoRequests>> :
            d \in PlaceholderSpellings}
    \cup {<<Candidate(keys \cup {"github_username", "twitter_handle"},
                      ListCell(<<SignalRole, SignalContact, SignalLinkedin>>)),
            net>> :
            keys \in SUBSET (DOMAIN GivenValues),
            net \in {Net(FullProfile, "ok", "ok", "ok"),
                     Net(FullProfile, "raises", "raises", "raises")}}
    \cup {<<Candidate({"github_enrichment"}, s), NoRequests>> :
            s \in {ListCell(<<>>), ListCell(<<SignalRole>>)}}
    \cup {<<Candidate({"github_enrichment", "github_username"}, s),
            Net(FullProfile, "ok", "ok", "ok")>> :
            s \in {ListCell(<<>>), ListCell(<<SignalRole>>)}}

EnrichInit ==
    /\ backend = "sheets"
    /\ rows = <<>>
    /\ last = NoCall
    /\ RunIdle

\* one call of enrich_prospect, observed with what it was given
EnrichCall ==
    \E input \in EnrichInputs :
        /\ last = NoCall
        /\ last' = [op |-> "enrich", cand |-> input[1], net |-> input[2],
                    ret |-> EnrichProspectWith(input[1], input[2])]
        /\ UNCHANGED <<backend, rows, runVars>>

EnrichNext == EnrichCall

EnrichSpec == EnrichInit /\ [][EnrichNext]_vars

----------------------------------------------------------------------------
(* One prospect through the three steps of store_prospects, with the       *)
(* enricher carried out in full                                            *)

\* lines 108-117 of main.py: the enriched prospect is scored, the scores
\* are merged in, and the result is offered to the store
ScoreAndStore ==
    /\ last.op = "enrich"
    /\ ~last.ret.raised
    /\ \E score_data \in ScoreResults, readFails \in BOOLEAN,
          appendFails \in BOOLEAN :
        \E r \in {AddProspect(backend, rows, Update(last.ret.out, score_data),
                              readFails, appendFails)} :
            /\ rows' = r.rows
            /\ last' = [op |-> "stored", cand |-> last.cand,
                        enriched |-> last.ret.out, ret |-> r.ret]
    /\ UNCHANGED <<backend, runVars>>

EnrichStoreNext == EnrichCall \/ ScoreAndStore

EnrichStoreSpec == EnrichInit /\ [][EnrichStoreNext]_vars

----------------------------------------------------------------------------
(* Properties of the store *)

\* the last call ran with the backend answering both the read and the append
FaultFree == last.op = "add" /\ ~last.readFails /\ ~last.appendFails

\* the rows the store held when the last call started
RowsBefore == SubSeq(rows, 1, last.before)

CandName == Normalize(Get(last.cand, "name", <<>>))
CandEmail == Normalize(Get(last.cand, "email", <<>>))

RowsBeforePair ==
    SubSeq(rows, 1, last.before - (IF last.repeatOf = "accepted" THEN 1 ELSE 0))

\* the last two calls offered the same candidate, one that has a name and
\* no email, with the backend working, to a store that held no row with
\* that name
RepeatedNamedNoEmail ==
    /\ FaultFree
    /\ last.repeatOf # "none"
    /\ CandName # <<>>
    /\ Get(last.cand, "email", <<>>) = <<>>
    /\ \A n \in 1..Len(RowsBeforePair) :
        Normalize(RowsBeforePair[n].Name) # CandName

\* C2: two add_prospect calls in a row with the same candidate that has a
\* name and no email, on a store holding no row with that name, return
\* true and then false.
C2_TrueThenFalse ==
    RepeatedNamedNoEmail => last.repeatOf = "accepted" /\ ~last.ret

\* the pair returned (true, false) on a store that already held a row
\* with an empty Email
C2_Witness ==
    /\ RepeatedNamedNoEmail
    /\ last.repeatOf = "accepted"
    /\ ~last.ret
    /\ \E n \in 1..Len(RowsBeforePair) : RowsBeforePair[n].Email = <<>>

\* C3: add_prospect only appends: every stored row stays where it was and
\* as it was; a call that returns false leaves the rows unchanged and a
\* call that returns true adds exactly one row, at the end.
C3_AppendOnly ==
    [][ /\ Len(rows') >= Len(rows)
        /\ SubSeq(rows', 1, Len(rows)) = rows
        /\ (last'.op = "add" /\ ~last'.ret) => rows' = rows
        /\ (last'.op = "add" /\ last'.ret) =>
                /\ Len(rows') = Len(rows) + 1
                /\ rows'[Len(rows')] = MakeRow(backend, last'.cand) ]_vars

\* a row was appended behind a row that was already there
C3_Witness ==
    /\ last.op = "add"
    /\ last.ret
    /\ last.before >= 1
    /\ Len(rows) = last.before + 1
    /\ rows[Len(rows)] # rows[1]

\* the candidate of the last call carried its signals as a list
ListSignals ==
    /\ "signals" \in DOMAIN last.cand
    /\ last.cand["signals"].kind = "list"

\* C4: when add_prospect accepts a candidate whose signals is a list of
\* strings, the Signals cell of the appended row is one string, the
\* signals joined in order with " | ", in GoogleSheetsDB as in CSVDatabase.
C4_SignalsJoined ==
    (last.op = "add" /\ last.ret /\ ListSignals) =>
        rows[Len(rows)].Signals
            = StrCell(Join(SignalSep, last.cand["signals"].val))

\* the first min(500, len) characters of a bio
BioPrefix(bio) ==
    [k \in 1..(IF Len(bio) < 500 THEN Len(bio) ELSE 500) |-> bio[k]]

\* C5: the Bio cell of an appended row is the first min(500, len(bio))
\* characters of the candidate's bio, and a candidate without a bio that
\* is no duplicate is stored, with an empty Bio, and reported as new.
C5_BioTruncated ==
    /\ (last.op = "add" /\ last.ret) =>
            rows[Len(rows)].Bio = BioPrefix(Get(last.cand, "bio", <<>>))
    /\ (FaultFree /\ "bio" \notin DOMAIN last.cand
            /\ ~IsDuplicate(backend, RowsBefore, last.cand)) =>
                /\ last.ret
                /\ rows[Len(rows)].Bio = <<>>

\* a 900-character bio went into the store as its 500-character prefix
C5_Witness ==
    /\ last.op = "add"
    /\ last.ret
    /\ Len(Get(last.cand, "bio", <<>>)) = 900
    /\ Len(rows[Len(rows)].Bio) = 500
    /\ rows[Len(rows)].Bio = SubSeq(last.cand["bio"], 1, 500)

\* the candidate of the last call has no name, and its email, if it has
\* one, is the Email of no row
NamelessUnmatched ==
    /\ FaultFree
    /\ CandName = <<>>
    /\ \A n \in 1..Len(RowsBefore) :
        CandEmail = <<>> \/ CandEmail # Normalize(RowsBefore[n].Email)

\* some row that was there before the last call has an empty Name
NamelessRowBefore ==
    \E n \in 1..Len(RowsBefore) : Normalize(RowsBefore[n].Name) = <<>>

\* C21, as stated: a candidate without name collides with a row without
\* name: offered to a store that holds such a row, with no email that
\* matches, it is rejected as a duplicate.
C21_NamelessCollides ==
    (NamelessUnmatched /\ NamelessRowBefore) => ~last.ret

\* C21, amended: an empty name matches nothing.  A candidate without name
\* whose email matches no row is accepted as new, also by a store that
\* holds rows without name, and its row is appended.
C21_NamelessNeverCollides ==
    NamelessUnmatched =>
        /\ last.ret
        /\ Len(rows) = last.before + 1
        /\ rows[Len(rows)].Name = Get(last.cand, "name", <<>>)

\* a second candidate without name was accepted
C21_Witness ==
    /\ NamelessUnmatched
    /\ NamelessRowBefore
    /\ last.ret
    /\ Normalize(rows[Len(rows)].Name) = <<>>

\* C24: in a store that started empty and was only written by add_prospect
\* calls made one after the other, calls whose read or append failed
\* included, no two rows have the same non-empty normalized Name and no
\* two rows have the same non-empty normalized Email.
C24_NoTwoRowsShareKey ==
    \A m \in 1..Len(rows), n \in 1..Len(rows) :
        m < n =>
            /\ \/ Normalize(rows[m].Name) = <<>>
               \/ Normalize(rows[m].Name) # Normalize(rows[n].Name)
            /\ \/ Normalize(rows[m].Email) = <<>>
               \/ Normalize(rows[m].Email) # Normalize(rows[n].Email)

----------------------------------------------------------------------------
(* Properties of two interleaved calls *)

\* both calls have returned, the backend answered every read and append,
\* and the two candidates have the same non-empty normalized name
SameNameBothReturned ==
    /\ last.op = "race"
    /\ \A c \in {1, 2} :
        /\ last.calls[c].at = "done"
        /\ ~last.calls[c].readFails
        /\ ~last.calls[c].appendFails
    /\ Normalize(last.calls[1].cand["name"]) # <<>>
    /\ Normalize(last.calls[1].cand["name"])
        = Normalize(last.calls[2].cand["name"])

\* both duplicate checks ran before either append
ChecksBeforeAppends ==
    /\ Len(last.trace) = 4
    /\ last.trace[1][2] = "check"
    /\ last.trace[2][2] = "check"

\* C23: check and append are two steps.  When two calls for new candidates
\* of the same name both check before either appends, both return True
\* and the store ends with two rows of that name; when one call is over
\* before the other checks, only the first one is accepted.
C23_BothAcceptedWhenInterleaved ==
    SameNameBothReturned =>
        IF ChecksBeforeAppends
        THEN /\ last.calls[1].ret /\ last.calls[2].ret
             /\ Len(rows) = 2
             /\ Normalize(rows[1].Name) = Normalize(rows[2].Name)
             /\ Normalize(rows[1].Name)
                 = Normalize(last.calls[1].cand["name"])
        ELSE /\ last.calls[1].ret # last.calls[2].ret
             /\ Len(rows) = 1

\* two candidates whose names differ in case and blanks were both stored
C23_Witness ==
    /\ SameNameBothReturned
    /\ ChecksBeforeAppends
    /\ last.calls[1].cand["name"] # last.calls[2].cand["name"]
    /\ last.calls[1].ret /\ last.calls[2].ret
    /\ Len(rows) = 2

----------------------------------------------------------------------------
(* Properties of a run *)

\* the lists the collectors called so far have returned, in call order
RECURSIVE ConcatReturned(_)
ConcatReturned(log) ==
    IF log = <<>> THEN <<>>
    ELSE ConcatReturned(SubSeq(log, 1, Len(log) - 1))
            \o (IF log[Len(log)].raised THEN <<>> ELSE log[Len(log)].list)

\* while scrape_all_sources runs, the k-th collector called is the k-th of
\* twitter, github, hackernews, producthunt, and the list being built is
\* the concatenation of what the collectors that did not raise returned
ScrapedInOrder ==
    /\ Len(scraped) = srcIdx - 1
    /\ \A k \in 1..Len(scraped) :
        scraped[k].source
            = <<"twitter", "github", "hackernews", "producthunt">>[k]
    /\ all_prospects = ConcatReturned(scraped)

\* C6: scrape_all_sources calls the four collectors in the order twitter,
\* github, hackernews, producthunt; a collector that raises adds nothing,
\* the later collectors are still called, and the list returned, after all
\* four have been called, is the concatenation in that order of the lists
\* of the collectors that did not raise.
C6_CollectorsIsolated ==
    [][/\ pc' = "scrape" => ScrapedInOrder'
       /\ (pc = "scrape" /\ pc' # "scrape") =>
            /\ Len(scraped) = 4
            /\ all_prospects' = ConcatReturned(scraped)]_vars

\* twitter and hackernews raised, github and producthunt returned prospects
C6_Witness ==
    /\ pc = "scrape"
    /\ Len(scraped) = 4
    /\ scraped[1].raised
    /\ scraped[2].list # <<>>
    /\ scraped[3].raised
    /\ scraped[4].list # <<>>
    /\ all_prospects = scraped[2].list \o scraped[4].list

\* store_prospects has run to its return
Returned == pc = "done" /\ ev.outcome = "summary"

\* store_prospects is running or has returned
InStoreProspects == pc = "pipeline" \/ Returned

\* C7, as stated: a step that raises costs the prospect nothing, so by the
\* end every prospect has been enriched, scored and offered to the store.
C7_EveryStepAttempted ==
    Returned =>
        /\ hist.enrich_calls = stats.total
        /\ hist.score_calls = stats.total
        /\ hist.store_calls = stats.total

\* C7, amended: one try/except wraps the three steps of a prospect.  Every
\* prospect gets its enrichment attempt; when that raises, the prospect is
\* neither scored nor offered to the store, and the loop goes on with the
\* next prospect; it can always go on, and it returns only after the last
\* prospect.
C7_FailureEndsProspectOnly ==
    InStoreProspects =>
        /\ hist.enrich_calls
            = (i - 1) + (IF step \in {"score", "store"} THEN 1 ELSE 0)
        /\ hist.score_calls
            = hist.enrich_calls - hist.enrich_raised
                - (IF step = "score" THEN 1 ELSE 0)
        /\ hist.store_calls
            = hist.score_calls - (IF step = "store" THEN 1 ELSE 0)
        /\ stats.enriched = hist.enrich_calls - hist.enrich_raised
        /\ stats.scored = hist.score_calls
        /\ pc = "pipeline" =>
            ENABLED (Enrich \/ EnrichRaises \/ Score \/ Store \/ Finish)
        /\ Returned => i = stats.total + 1

\* enrichment raised for an earlier prospect and a later one was stored
C7_Witness ==
    /\ pc = "pipeline"
    /\ hist.enrich_raised >= 1
    /\ ev = [step |-> "store", outcome |-> "new"]

\* the rows this run has appended whose Priority is High
HighRowsOfRun ==
    {n \in (hist.rows_at_start + 1)..Len(rows) : rows[n].Priority = "High"}

\* C8, as stated: at the end high_priority is the number of prospects scored
\* High, whether stored as new or rejected as duplicates (here for the runs
\* in which no append failed).
C8_HighCountsAllScored ==
    (Returned /\ hist.append_errors = 0) =>
        stats.high_priority = hist.high_scored

\* C8, amended: high_priority is the number of prospects that add_prospect
\* accepted as new and that were scored High, which is the number of rows
\* of this run with Priority High.
C8_HighCountsNewOnly ==
    InStoreProspects => stats.high_priority = Cardinality(HighRowsOfRun)

\* a High prospect was stored and another High prospect was a duplicate
C8_Witness ==
    /\ Returned
    /\ stats.high_priority >= 1
    /\ stats.duplicates >= 1
    /\ hist.append_errors = 0
    /\ hist.high_scored > stats.high_priority

\* C9: a prospect whose append failed inside add_prospect leaves no row and
\* is counted neither as new nor as a duplicate.
C9_FailureCountedNowhere ==
    InStoreProspects =>
        /\ Len(rows) - hist.rows_at_start = stats.new
        /\ stats.new + stats.duplicates
            = hist.store_calls - hist.append_errors

\* C25: while store_prospects runs and when it has returned,
\* new + duplicates <= scored <= enriched <= total, and total is the number
\* of candidates collected; new is the number of rows the run appended and
\* duplicates the number of candidates add_prospect rejected because they
\* were already present; when no enrichment raised, the five are equal at
\* the end.
C25_CountersOrdered ==
    InStoreProspects =>
        /\ stats.total = Len(all_prospects)
        /\ stats.new + stats.duplicates <= stats.scored
        /\ stats.scored <= stats.enriched
        /\ stats.enriched <= stats.total
        /\ stats.new = Len(rows) - hist.rows_at_start
        /\ stats.duplicates
            = hist.store_calls - stats.new - hist.append_errors
        /\ (Returned /\ hist.enrich_raised = 0) =>
            /\ stats.new + stats.duplicates = stats.scored
            /\ stats.scored = stats.enriched
            /\ stats.enriched = stats.total

MissingCredential == ~env.api_key \/ ~env.credentials_json \/ ~env.sheet_id

\* no collector was called, nothing was enriched, scored or offered to the
\* store, and the sheet is as the run found it
NothingProcessed ==
    /\ scraped = <<>>
    /\ all_prospects = <<>>
    /\ hist = NoHist
    /\ stats = NoStats
    /\ rows \in {<<>>, <<SeedRow>>}

\* C10: with the API key, the store credentials or the sheet id missing the
\* job ends in the constructor with nothing processed; the constructor is
\* the only place where the job is abandoned, and a collector or an
\* enrichment that raised, or an append that failed, leaves the run going.
C10_OnlyInitAborts ==
    /\ (MissingCredential /\ pc # "boot") =>
            pc = "aborted" /\ NothingProcessed
    /\ pc = "aborted" => ev.step = "init" /\ NothingProcessed
    /\ ev.outcome \in {"raised", "append_error"} =>
            pc \in {"scrape", "pipeline"}

\* the run was abandoned because only the sheet id was missing
C10_Witness ==
    /\ pc = "aborted"
    /\ env.config /\ env.api_key /\ env.credentials_json /\ ~env.sheet_id
    /\ ev = [step |-> "init", outcome |-> "sheet_id"]

\* C18: collection is over before the first enrichment; the k-th
\* enrichment is that of the k-th candidate collected and starts only when
\* the candidate before it has been stored or skipped; a candidate is
\* scored right after its enrichment and offered to the store right after
\* its scoring; the rows change in store steps only, one call at a time.
C18_OneCandidateAtATime ==
    [][/\ ev'.step = "scrape" => (pc = "scrape" /\ hist' = NoHist)
       /\ (pc # "pipeline" /\ pc' = "pipeline") =>
            (Len(scraped) = 4 /\ i' = 1)
       /\ ev'.step \in {"enrich", "score", "store"} =>
            (pc = "pipeline" /\ all_prospects' = all_prospects)
       /\ ev'.step = "enrich" =>
            /\ i = hist.enrich_calls + 1
            /\ \/ ev = [step |-> "run", outcome |-> "store_prospects"]
               \/ ev.step = "store"
               \/ ev = [step |-> "enrich", outcome |-> "raised"]
       /\ ev'.step = "score" =>
            (ev = [step |-> "enrich", outcome |-> "ok"] /\ i' = i)
       /\ ev'.step = "store" => (ev.step = "score" /\ i' = i + 1)
       /\ rows' # rows =>
            (ev'.step = "store" /\ Len(rows') = Len(rows) + 1)]_vars

\* the second candidate is being processed after the first was stored
C18_Witness ==
    /\ pc = "pipeline"
    /\ i = 2
    /\ step = "score"
    /\ hist.store_calls = 1
    /\ ev = [step |-> "enrich", outcome |-> "ok"]

\* the score cells of a row
ScoreCells(row) ==
    [overall_score |-> row.OverallScore, founder_score |-> row.FounderScore,
     thesis_fit_score |-> row.ThesisFit, timing_score |-> row.TimingScore,
     signal_strength_score |-> row.SignalScore, priority |-> row.Priority,
     reasoning |-> row.Reasoning]

\* the score fields of a candidate
ScoreFieldsOf(p) == [f \in RequiredFields |-> p[f]]

----------------------------------------------------------------------------
(* Properties of the scorer *)

Scored == last.op = "score"

\* the tokens after 'LABEL: ' on the k-th line of the response, the line
\* of the k-th label of the prompt
GivenValue(k) == SubSeq(last.service.lines[k], 4, Len(last.service.lines[k]))

\* the k-th label has no line in the response
Absent(k) == last.service.lines[k] = <<>>

\* the response gives the k-th label, a score, as an integer
GivenInteger(k) ==
    /\ ~Absent(k)
    /\ \E n \in -9..199 : ToString(n) = TextOf(Strip(GivenValue(k)))

GivenNumber(k) ==
    CHOOSE n \in -9..199 : ToString(n) = TextOf(Strip(GivenValue(k)))

\* C11: score_prospect always returns a dict with the five scores, priority
\* and reasoning; when the call raises or the response object has no
\* usable text, the five scores are 50, priority is Medium and reasoning
\* is "Error during scoring: " followed by the cause.
C11_NeutralOnServiceFailure ==
    Scored =>
        /\ DOMAIN last.ret = RequiredFields
        /\ last.service.kind # "text" =>
            /\ \A f \in ScoreFields : last.ret[f] = IntCell(50)
            /\ last.ret["priority"] = "Medium"
            /\ last.ret["reasoning"]
                = "Error during scoring: " \o last.service.cause

\* the rating call raised
C11_Witness ==
    /\ Scored
    /\ last.service.kind = "raises"
    /\ last.ret["overall_score"] = IntCell(50)
    /\ last.ret["reasoning"] = "Error during scoring: Connection error."

\* every score line of the response gives an integer
ScoreLinesWellFormed ==
    /\ last.service.kind = "text"
    /\ \A k \in 1..5 : Absent(k) \/ GivenInteger(k)

\* the labels a line names: those it holds followed by a colon
LabelsIn(line) ==
    {k \in 1..Len(LabelOrder) : HasLabel(line, LabelOrder[k].label)}

\* no line of the response names a label besides its own
OneLabelPerLine ==
    /\ last.service.kind = "text"
    /\ \A k \in 1..Len(LabelOrder) :
        Absent(k) \/ LabelsIn(last.service.lines[k]) = {k}

SomeScoreLineMalformed ==
    /\ last.service.kind = "text"
    /\ \E k \in 1..5 : ~Absent(k) /\ ~GivenInteger(k)

\* C13, as stated: a score line with a non-integer value defaults that
\* score to 50, and the fields whose lines parsed keep their values.
C13_BadScoreDefaultedAlone ==
    (Scored /\ last.service.kind = "text") =>
        /\ \A k \in 1..5 :
            last.ret[LabelOrder[k].field]
                = IF GivenInteger(k) THEN IntCell(GivenNumber(k))
                  ELSE IntCell(50)
        /\ ~Absent(6) => last.ret["priority"] = TextOf(Strip(GivenValue(6)))
        /\ ~Absent(7) => last.ret["reasoning"] = TextOf(Strip(GivenValue(7)))

\* C13, amended: a score line with a non-integer value makes the parser
\* give up: all five scores are 50, priority is Medium and reasoning is
\* "Error parsing scoring response", whatever the other lines gave.
C13_BadScoreDefaultsAll ==
    (Scored /\ SomeScoreLineMalformed) =>
        /\ \A f \in ScoreFields : last.ret[f] = IntCell(50)
        /\ last.ret["priority"] = "Medium"
        /\ last.ret["reasoning"] = "Error parsing scoring response"

\* FOUNDER_SCORE is "high" while OVERALL_SCORE, PRIORITY and REASONING gave
\* 75, High and a text, none of which is kept
C13_Witness ==
    /\ Scored
    /\ last.service.kind = "text"
    /\ TextOf(GivenValue(1)) = "high"
    /\ GivenInteger(5) /\ GivenNumber(5) = 75
    /\ TextOf(GivenValue(6)) = "High"
    /\ ~Absent(7)
    /\ last.ret["overall_score"] = IntCell(50)
    /\ last.ret["priority"] = "Medium"
    /\ last.ret["reasoning"] = "Error parsing scoring response"

\* C14: whatever the response text, the five scores returned are integers
\* in 0..100 and priority is High, Medium or Low.
C14_ScoresInRange ==
    Scored =>
        /\ \A f \in ScoreFields :
            /\ last.ret[f].kind = "int"
            /\ last.ret[f].val \in 0..100
        /\ last.ret["priority"] \in {"High", "Medium", "Low"}

\* C22: a line belongs to the label it starts with.  When every score line
\* gives an integer, the REASONING line yields all of its text after the
\* first colon, further colons and names of other labels included, and
\* what the reasoning says changes no score and no priority: those are as
\* their own lines give them, or defaulted when their lines are missing.
C22_ReasoningLineKeptWhole ==
    (Scored /\ ScoreLinesWellFormed /\ ~Absent(7)) =>
        /\ last.ret["reasoning"]
            = TextOf(Strip(AfterFirstColon(last.service.lines[7])))
        /\ \A k \in 1..5 :
            last.ret[LabelOrder[k].field]
                = IF Absent(k) THEN IntCell(50) ELSE IntCell(GivenNumber(k))
        /\ last.ret["priority"]
            = IF Absent(6) THEN "Medium" ELSE TextOf(Strip(GivenValue(6)))

----------------------------------------------------------------------------
(* Properties of the enricher *)

\* an enrich_prospect call has been observed, and it returned
Enriched == last.op = "enrich"
EnrichReturned == Enriched /\ ~last.ret.raised

\* the keys whose values are texts
TextKeys ==
    {"name", "email", "linkedin_url", "current_company", "current_title",
     "github_username", "twitter_handle"}

\* key k of dict p has a non-empty value
Populated(p, k) == k \in DOMAIN p /\ (k \in TextKeys => p[k] # <<>>)

\* the value of a key of the returned dict, None when the key is absent
OutValue(k) ==
    IF k \in DOMAIN last.ret.out THEN Some(last.ret.out[k]) ELSE None

\* the request was made and did not bring a profile
Failed(fetch) == fetch.status \in {"non200", "raises"}

\* what the signals of the candidate hold, in signal order
EmailInSignals ==
    FirstFound([n \in 1..Len(SignalTexts(last.cand)) |->
                    ExtractEmailFromText(SignalTexts(last.cand)[n])])
LinkedinInSignals ==
    FirstFound([n \in 1..Len(SignalTexts(last.cand)) |->
                    ExtractLinkedinFromText(SignalTexts(last.cand)[n])])
RoleInSignals ==
    FirstFound([n \in 1..Len(SignalTexts(last.cand)) |->
                    RoleSearch(SignalTexts(last.cand)[n])])

\* C15: whatever the lookups answer, every key that has a non-empty text
\* in the candidate given (name, email, linkedin_url, current_company,
\* current_title, ...) has the same text in the candidate returned.
C15_OnlyFillsAbsent ==
    EnrichReturned =>
        \A k \in DOMAIN last.cand \cap TextKeys :
            Populated(last.cand, k) =>
                /\ k \in DOMAIN last.ret.out
                /\ last.ret.out[k] = last.cand[k]

\* C16: enrich_prospect does not raise; a request that raises or is
\* answered with another status than 200 leaves its sub-step to the
\* signals (email, LinkedIn) or without result (profile sub-record), and
\* the sub-steps behind it run as if it had not failed: the LinkedIn URL
\* and the sub-record are taken from a profile that is fetched, the
\* microblog sub-record is built and the role is inferred.
C16_FailedRequestLosesOnlyItsField ==
    Enriched =>
        /\ ~last.ret.raised
        /\ (~Populated(last.cand, "email") /\ Failed(last.net.email_fetch)) =>
                OutValue("email") = EmailInSignals
        /\ (~Populated(last.cand, "linkedin_url")
                /\ Failed(last.net.linkedin_fetch)) =>
                OutValue("linkedin_url") = LinkedinInSignals
        /\ Failed(last.net.github_fetch) =>
                OutValue("github_enrichment")
                    = (IF "github_enrichment" \in DOMAIN last.cand
                       THEN Some(last.cand["github_enrichment"])
                       ELSE None)
        /\ (/\ ~Populated(last.cand, "linkedin_url")
            /\ last.net.linkedin_fetch.status = "ok"
            /\ ExtractLinkedinFromText(
                    last.net.linkedin_fetch.profile.bio \o <<" ">>
                        \o last.net.linkedin_fetch.profile.blog).has) =>
                OutValue("linkedin_url")
                    = ExtractLinkedinFromText(
                        last.net.linkedin_fetch.profile.bio \o <<" ">>
                            \o last.net.linkedin_fetch.profile.blog)
        /\ last.net.github_fetch.status = "ok" =>
                /\ OutValue("github_enrichment").has
                /\ OutValue("github_enrichment").v.company
                        = last.net.github_fetch.profile.company
        /\ Populated(last.cand, "twitter_handle") =>
                OutValue("twitter_enrichment")
                    = Some(EnrichTwitter(last.cand["twitter_handle"]))
        /\ (~Populated(last.cand, "current_company") /\ RoleInSignals.has) =>
                /\ OutValue("current_company") = Some(RoleInSignals.v.company)
                /\ OutValue("current_title") = Some(RoleInSignals.v.title)

\* the first request raised and the second was refused, the third was
\* answered: email and LinkedIn URL come from the signals, the sub-record
\* from the profile and the role from the signals
C16_Witness ==
    /\ Enriched
    /\ last.net.email_fetch.status = "raises"
    /\ last.net.linkedin_fetch.status = "non200"
    /\ last.net.github_fetch.status = "ok"
    /\ ~last.ret.raised
    /\ OutValue("email") = Some(AdaEmail)
    /\ OutValue("linkedin_url") = Some(LinkedinUrl \o <<"a", "d", "a", "-",
        "l">>)
    /\ OutValue("github_enrichment").has
    /\ OutValue("current_company") = Some(<<"S", "t", "r", "i", "p", "e">>)

\* the text behind the last "@" of an address
DomainOf(email) ==
    SubSeq(email, Max({0} \cup {n \in 1..Len(email) : email[n] = "@"}) + 1,
           Len(email))

\* C17: an email that enrichment fills in never has a placeholder domain,
\* however the domain is capitalised and whether the address came from the
\* profile or from a signal.
C17_NoPlaceholderEmail ==
    (EnrichReturned /\ ~Populated(last.cand, "email")
        /\ "email" \in DOMAIN last.ret.out) =>
        Lower(DomainOf(last.ret.out["email"])) \notin InvalidDomains

\* the profile declared a placeholder address in capitals and the first
\* signal holds another one in front of a real address: the email filled
\* in is the address of the second signal
C17_Witness ==
    /\ EnrichReturned
    /\ ~Populated(last.cand, "email")
    /\ last.net.email_fetch.status = "ok"
    /\ last.net.email_fetch.profile.email
            = PlaceholderAddress(<<"E", "X", "A", "M", "P", "L", "E", ".", "C", "O", "M">>)
    /\ last.cand["signals"] = ListCell(<<SignalPlaceholderFirst, SignalContact>>)
    /\ OutValue("email") = Some(AdaEmail)

\* the company declared by the profile that this enrichment fetched
DeclaredCompany ==
    IF Populated(last.cand, "github_username")
       /\ last.net.github_fetch.status = "ok"
    THEN last.net.github_fetch.profile.company
    ELSE <<>>

StripLeadingAt(s) == IF s # <<>> /\ Head(s) = "@" THEN Tail(s) ELSE s

\* C20: for a candidate without current_company, the company inferred is
\* the one the fetched profile declares, without its leading "@"; only
\* when the profile declares none, the first signal that matches the role
\* pattern gives company and title.
C20_ProfileCompanyPreferred ==
    (EnrichReturned /\ ~Populated(last.cand, "current_company")) =>
        IF DeclaredCompany # <<>>
        THEN \/ OutValue("current_company")
                    = Some(StripLeadingAt(DeclaredCompany))
             \/ OutValue("current_company")
                    = Some(Strip(StripLeadingAt(DeclaredCompany)))
        ELSE RoleInSignals.has =>
                /\ OutValue("current_company") = Some(RoleInSignals.v.company)
                /\ OutValue("current_title") = Some(RoleInSignals.v.title)

----------------------------------------------------------------------------
(* Properties of enrichment followed by storing *)

\* the candidate came without company and title, enrichment inferred both
\* from its signals, and the store accepted it as new
InferredRoleStored ==
    /\ last.op = "stored"
    /\ last.ret
    /\ DOMAIN last.cand
        \cap {"company", "title", "current_company", "current_title"} = {}
    /\ {"current_company", "current_title"} \subseteq DOMAIN last.enriched
    /\ RoleInSignals.has
    /\ last.enriched["current_title"] = RoleInSignals.v.title
    /\ last.enriched["current_company"] = RoleInSignals.v.company

\* C26: the company and title that role inference found for a candidate
\* that had none are in the Company and Title columns of the row appended
\* for it.
C26_InferredRoleInRow ==
    InferredRoleStored =>
        /\ rows[Len(rows)].Company # ""
        /\ rows[Len(rows)].Title # ""
        /\ rows[Len(rows)].Company = last.enriched["current_company"]
        /\ rows[Len(rows)].Title = last.enriched["current_title"]

====
